---------------------------- MODULE Spec2Model ----------------------------
(***************************************************************************)
(* koishi-plugin-pixiv-parse (src/src/index.ts): the credential manager    *)
(* (PixivService._refreshAccessToken / _request), the request handler      *)
(* (handlePixivRequest) and the subscription tracker (checkAndPushUpdates, *)
(* the ready handler, the pid / pixivtest / pixivcheck commands and the    *)
(* link middleware).                                                       *)
(*                                                                         *)
(* Every activity of the plugin is a task.  A task advances one step per   *)
(* await of the code; what the outside world answers at an await (the auth *)
(* server, the gallery API, the CDN, the delivery sink, the bot list) is   *)
(* drawn with \E when the await returns.                                   *)
(***************************************************************************)
EXTENDS Integers, Sequences, FiniteSets, TLC

-----------------------------------------------------------------------------
(* Bounds of the model *)

\* artwork ids the gallery API may report are 1..MaxId (0: none / no record)
MaxId == 2
\* the auth server issues the tokens 1..MaxTokens
MaxTokens == 1
\* an artwork has 1..MaxPages images
MaxPages == 2

\* the plugin is loaded at most MaxLoads times
MaxLoads == 2

\* task slots; a slot that is "off" never starts an activity
Tasks == {1, 2}

Null == 0

-----------------------------------------------------------------------------
(* Configuration (Config, index.ts 35-131).  Fixed for the life of a plugin *)
(* instance; Init draws it.                                                 *)

\* config.subscriptions: authors 1 and 2, the first pushed to two channels
Subscriptions ==
    << [uid |-> 1, channelIds |-> <<1, 2>>],
       [uid |-> 2, channelIds |-> <<2>>] >>

Authors == {Subscriptions[i].uid : i \in 1..Len(Subscriptions)}

Platforms == {"onebot", "discord"}

Configs ==
    [ refreshToken       : BOOLEAN,
      r18Action          : {"block", "warn", "send"},
      autoPdfForR18      : BOOLEAN,
      pdfThreshold       : {0, 2},
      forwardThreshold   : {2},
      sendAuthor         : {TRUE},
      enableSubscription : {TRUE},
      pushBotPlatform    : {"onebot"},
      downloadConcurrency : {1},
      pdfSendMode        : {"buffer"} ]

VARIABLES
    files,        \* temporary storage: what the PDF renders have left on disk
                  \* (rec FALSE: not recorded)
    plugin,       \* the plugin instance: loaded (between apply and dispose),
                  \* timers (intervals armed and not cleared), loads (applies so far)
    config,       \* the plugin's Config
    accessToken,  \* PixivService.accessToken: Null or a token number
    db,           \* table pixiv_last_artworks: author -> last_artwork_id, Null = no row
    pc,           \* pc[p]: where task p is suspended
    loc,          \* loc[p]: the locals of task p's activity
    req,          \* req[p]: the frame of the _request call task p is in
    obs,          \* obs[p]: what task p did for its current author / request (history)
    lastRefresh,  \* the token exchange that answered last: its outcome and token
                  \* (history; outcome "off": not recorded)
    prev          \* the watched author's iteration in the manual run before
                  \* (history; uid Null: not recorded)

vars == <<files, plugin, config, accessToken, db, pc, loc, req, obs, lastRefresh, prev>>

-----------------------------------------------------------------------------
(* Errors and the _request frame *)

NoErr == [at |-> 0, status |-> 0, msg |-> "none"]

\* new Error('无法获取或刷新 Access Token。'), index.ts 183
TokenErr == [at |-> 0, status |-> 0, msg |-> "no_access_token"]

\* what the at-th send of a call can be rejected with
HttpErrors(at) ==
    [at : {at}, status : {400, 500}, msg : {"invalid_grant", "invalid_token", "other"}]

\* st: none | refresh0 | send1 | refresh1 | send2 | ok | err
\* err: the first send's error; err2: the retry's error; thrown: what the caller gets
\* pre / re: token exchanges before / after the first send; sends: requests sent
\* reOut: how the exchange after the first send ended (none: there was none)
ReqIdle ==
    [st |-> "none", err |-> NoErr, err2 |-> NoErr, thrown |-> NoErr,
     pre |-> 0, re |-> 0, reOut |-> "none", sends |-> 0]

\* IsAuthFailure without the test of the message
IsAuthFailureStatusOnly(e) == e.status = 400

\* the test of index.ts 195-196
IsAuthFailure(e) ==
    e.status = 400 /\ e.msg \in {"invalid_grant", "invalid_token"}

\* _refreshAccessToken once the exchange has answered (index.ts 167-177):
\* the value it returns and the token it leaves
RefreshResult(outcome, tok, fresh) ==
    CASE outcome = "token"   -> [ok |-> TRUE,  tok |-> fresh]
      [] outcome = "notoken" -> [ok |-> FALSE, tok |-> tok]
      [] outcome = "throw"   -> [ok |-> FALSE, tok |-> Null]

\* RetryThrown falling through to the throw of index.ts 203
RetryThrownOriginal(first, second) == first

\* the error _request surfaces when the retry fails (index.ts 200: the
\* rejection of the second makeRequest() leaves the catch block as it is)
RetryThrown(first, second) == second

\* the error _request surfaces when the forced refresh fails (index.ts 203)
RefreshFailThrown(first) == first

\* _request up to its first await (index.ts 181-193)
StartRequest ==
    IF accessToken = Null
    THEN IF config.refreshToken
         THEN [ReqIdle EXCEPT !.st = "refresh0", !.pre = 1]
         ELSE [ReqIdle EXCEPT !.st = "err", !.thrown = TokenErr]
    ELSE [ReqIdle EXCEPT !.st = "send1", !.sends = 1]

\* the token exchange of task p's _request answers (index.ts 160-177, then
\* 182-193 or 198-203)
RefreshReturn(p) ==
    /\ req[p].st \in {"refresh0", "refresh1"}
    /\ \E outcome \in {"token", "notoken", "throw"}, fresh \in 1..MaxTokens :
         /\ outcome # "token" => fresh = 1
         /\ LET r == RefreshResult(outcome, accessToken, fresh)
                f == req[p]
            IN  /\ accessToken' = r.tok
                /\ lastRefresh' =
                      IF lastRefresh.outcome = "off"
                      THEN lastRefresh
                      ELSE [outcome |-> outcome,
                            tok |-> IF outcome = "token" THEN fresh ELSE Null]
                /\ req' = [req EXCEPT ![p] =
                      IF r.ok
                      THEN [f EXCEPT !.st = IF f.st = "refresh0" THEN "send1" ELSE "send2",
                                     !.reOut = IF f.st = "refresh0" THEN "none" ELSE outcome,
                                     !.sends = f.sends + 1]
                      ELSE [f EXCEPT !.st = "err",
                                     !.reOut = IF f.st = "refresh0" THEN "none" ELSE outcome,
                                     !.thrown = IF f.st = "refresh0"
                                                THEN TokenErr
                                                ELSE RefreshFailThrown(f.err)]]
    /\ UNCHANGED <<files, plugin, config, db, pc, loc, obs, prev>>

\* a send of task p's _request answers (index.ts 192-203)
SendReturn(p) ==
    /\ req[p].st \in {"send1", "send2"}
    /\ LET f == req[p] IN
       \/ /\ req' = [req EXCEPT ![p] = [f EXCEPT !.st = "ok"]]
       \/ /\ f.st = "send1"
          /\ \E e \in HttpErrors(1) :
               req' = [req EXCEPT ![p] =
                  IF IsAuthFailure(e) /\ config.refreshToken
                  THEN [f EXCEPT !.st = "refresh1", !.err = e, !.re = f.re + 1]
                  ELSE [f EXCEPT !.st = "err", !.err = e, !.thrown = e]]
       \/ /\ f.st = "send2"
          /\ \E e \in HttpErrors(2) :
               req' = [req EXCEPT ![p] =
                  [f EXCEPT !.st = "err", !.err2 = e,
                            !.thrown = RetryThrown(f.err, e)]]
    /\ UNCHANGED <<files, plugin, config, accessToken, db, pc, loc, obs, lastRefresh, prev>>

ReqDone(p) == req[p].st \in {"ok", "err"}

-----------------------------------------------------------------------------
(* handlePixivRequest (index.ts 324-400) *)

\* what the handler returns: a quoted text (notfound, block, warn, dlfail,
\* error), null, or elements (pdf: text + file; figure: one bundle of text +
\* images; list: text + images).  imgs: the images, by index in imageUrls.
NoContent ==
    [kind |-> "none", imgs |-> <<>>, pdf |-> FALSE, title |-> FALSE, author |-> FALSE]

NullContent == [NoContent EXCEPT !.kind = "null"]

Text(kind) == [NoContent EXCEPT !.kind = kind]

\* index.ts 333: the warning names the title and the author
WarnText == [NoContent EXCEPT !.kind = "warn", !.title = TRUE, !.author = TRUE]

\* index.ts 348-352: textInfo always has the title, the author if sendAuthor
Elements(kind, bufs, isPdf) ==
    [kind |-> kind, imgs |-> bufs, pdf |-> isPdf,
     title |-> TRUE, author |-> config.sendAuthor]

\* index.ts 328, 345, 396: a failure is null to the subscription path
Fail(isSubscription, kind) ==
    IF isSubscription THEN NullContent ELSE Text(kind)

IsR18(x_restrict) == x_restrict > 0

\* R18Gate without the block branch of index.ts 332
R18GateNoBlock(x_restrict, isSubscription) ==
    IF IsR18(x_restrict) /\ config.r18Action = "warn" /\ ~isSubscription
    THEN WarnText
    ELSE Text("pass")

\* R18Gate without the warn branch of index.ts 333
R18GateNoWarn(x_restrict, isSubscription) ==
    IF IsR18(x_restrict) /\ config.r18Action = "block"
    THEN Fail(isSubscription, "block")
    ELSE Text("pass")

\* index.ts 331-334: "pass" when the handler goes on to download
R18Gate(x_restrict, isSubscription) ==
    IF IsR18(x_restrict) /\ config.r18Action = "block"
    THEN Fail(isSubscription, "block")
    ELSE IF IsR18(x_restrict) /\ config.r18Action = "warn" /\ ~isSubscription
         THEN WarnText
         ELSE Text("pass")

\* index.ts 360
ShouldCreatePdf(x_restrict, imageCount) ==
    \/ config.autoPdfForR18 /\ IsR18(x_restrict)
    \/ config.pdfThreshold > 0 /\ imageCount >= config.pdfThreshold

\* UseForward with the count having to exceed the threshold
UseForwardStrict(imageCount, platform) ==
    /\ config.forwardThreshold > 0
    /\ imageCount > config.forwardThreshold
    /\ platform \in {"qq", "onebot"}

\* index.ts 387-388
UseForward(imageCount, platform) ==
    /\ config.forwardThreshold > 0
    /\ imageCount >= config.forwardThreshold
    /\ platform \in {"qq", "onebot"}

\* the orders in which n downloads can complete
CompletionOrders(n) ==
    {o \in [1..n -> 1..n] : \A i, j \in 1..n : i # j => o[i] # o[j]}

\* downloadImage (index.ts 217-229) for each url, in the order the downloads
\* complete: the buffer (named by the index of its url) or null
Settlements(order, okSet) ==
    [k \in 1..Len(order) |->
        [index |-> order[k],
         value |-> IF order[k] \in okSet THEN order[k] ELSE Null]]

\* PromiseAll with the values in the order of completion
PromiseAllInArrivalOrder(settled) ==
    [k \in 1..Len(settled) |-> settled[k].value]

\* Promise.all (index.ts 343): the i-th result is the value of the i-th
\* promise, whenever it settled
PromiseAll(settled) ==
    [i \in 1..Len(settled) |->
        settled[CHOOSE k \in 1..Len(settled) : settled[k].index = i].value]

\* index.ts 343: the results of Promise.all, then filter(Boolean), which
\* drops the downloads that returned null
ImageBuffers(n, okSet, order) ==
    SelectSeq(PromiseAll(Settlements(order, okSet)), LAMBDA b : b # Null)

\* CreatePdfFile keeping the first buffer only
CreatePdfFileFirstOnly(buffers) ==
    [i \in 1..(IF Len(buffers) > 0 THEN 1 ELSE 0) |-> buffers[i]]

\* createPdfFile (index.ts 272-285): one page per buffer, in the order of
\* buffers.entries(); a page is named by the image it shows, whose width and
\* height it takes (279-283)
CreatePdfFile(buffers) ==
    [i \in 1..Len(buffers) |-> buffers[i]]

\* index.ts 345-392, once the downloads have answered
Render(x_restrict, bufs, isSubscription, platform, pdfOk) ==
    IF Len(bufs) = 0
    THEN Fail(isSubscription, "dlfail")
    ELSE IF ShouldCreatePdf(x_restrict, Len(bufs))
         THEN IF pdfOk THEN Elements("pdf", CreatePdfFile(bufs), TRUE)
                       ELSE Fail(isSubscription, "error")
         ELSE IF UseForward(Len(bufs), platform)
              THEN Elements("figure", bufs, FALSE)
              ELSE Elements("list", bufs, FALSE)

-----------------------------------------------------------------------------
(* Tasks *)

\* kind: timed | manual (checkAndPushUpdates), ready, pid, link, test (pixivtest)
\* illust: whether getArtworkDetail gave an artwork; x_restrict, n: its
\* restriction level and number of image urls; imageBuffers: the downloads
\* that gave a buffer, by index in imageUrls; downloaded: the indexes of
\* the urls whose download gave a buffer (history); bot: whether the cycle
\* found the push bot (index.ts 406); pushed: the authors of this
\* manual run whose content was rendered and handed to the send loop (history)
LocIdle ==
    [kind |-> "none", idx |-> 0, latestId |-> Null, lastIdInDb |-> Null,
     illust |-> FALSE, x_restrict |-> 0, n |-> 0, imageBuffers |-> <<>>,
     downloaded |-> {},
     platform |-> "none", content |-> NoContent, ch |-> 0, updatesFound |-> 0,
     pushed |-> 0, bot |-> FALSE]

\* read: the task has read the author's record; sent: channels a send was
\* attempted to, in order; wrote: the writes made, in order; dl: image
\* downloads started; msg: what was sent to the session
ObsIdle ==
    [read |-> FALSE, sent |-> <<>>, wrote |-> <<>>, dl |-> 0, msg |-> NoContent]

IsSubscription(p) == loc[p].kind \in {"timed", "manual", "test"}
IsCycle(p) == loc[p].kind \in {"timed", "manual"}

\* no manual run to compare with (uid: the author watched, Null: none)
PrevNone(uid) ==
    [valid |-> FALSE, uid |-> uid, latestId |-> Null, rendered |-> FALSE,
     sent |-> <<>>, stored |-> 0]

\* index.ts 387
Platform(p) ==
    IF IsSubscription(p) THEN config.pushBotPlatform ELSE loc[p].platform

\* the handler is entered (index.ts 325-327): getArtworkDetail is called
CallHandler(p, l) ==
    /\ pc' = [pc EXCEPT ![p] = "h_detail"]
    /\ loc' = [loc EXCEPT ![p] = l]
    /\ req' = [req EXCEPT ![p] = StartRequest]

\* getArtworkDetail answers (index.ts 207-215, 327-343)
HandlerDetail(p) ==
    /\ pc[p] = "h_detail"
    /\ ReqDone(p)
    /\ req' = [req EXCEPT ![p] = ReqIdle]
    /\ \/ \* getArtworkDetail gives null: the request threw, or no illust came
          /\ loc' = [loc EXCEPT ![p].content = Fail(IsSubscription(p), "notfound")]
          /\ pc' = [pc EXCEPT ![p] = "h_ret"]
          /\ obs' = obs
       \/ /\ req[p].st = "ok"
          /\ \E x \in 0..2, n \in 1..MaxPages :
               LET gate == R18Gate(x, IsSubscription(p))
                   l == [loc[p] EXCEPT !.illust = TRUE, !.x_restrict = x]
               IN  IF gate.kind = "pass"
                   THEN /\ loc' = [loc EXCEPT ![p] = [l EXCEPT !.n = n]]
                        /\ pc' = [pc EXCEPT ![p] = "h_download"]
                        /\ obs' = [obs EXCEPT ![p].dl = n]
                   ELSE /\ loc' = [loc EXCEPT ![p] = [l EXCEPT !.content = gate]]
                        /\ pc' = [pc EXCEPT ![p] = "h_ret"]
                        /\ obs' = obs
    /\ UNCHANGED <<files, plugin, config, accessToken, db, lastRefresh, prev>>

\* index.ts 343: imageUrls.map(url => pixiv.downloadImage(url)) calls
\* downloadImage for every url before Promise.all is awaited, so all the n
\* downloads are in flight until the await returns
InFlight(p) == IF pc[p] = "h_download" THEN loc[p].n ELSE 0

\* temporary storage (data/temp/pixiv-parse, index.ts 265-267), by task:
\* dir: the per-page image directory of the task's PDF render is on disk;
\* pdf: the PDF file of the task's latest render (none, ondisk, deleted);
\* timer: the timeout that unlinks that file is armed; stale: earlier PDF
\* files of the task that still wait for their timeout
FilesOff ==
    [rec |-> FALSE,
     dir |-> [p \in Tasks |-> FALSE],
     pdf |-> [p \in Tasks |-> "none"],
     timer |-> [p \in Tasks |-> FALSE],
     stale |-> [p \in Tasks |-> 0]]

FilesEmpty == [FilesOff EXCEPT !.rec = TRUE]

\* how the PDF part of the handler ends: ok, build (createPdfFile throws
\* while it builds the pages, index.ts 272-287), read (readFile throws, 372)
PdfOutcomes == {"ok", "build", "read"}

\* temporary storage after the PDF part of task p's handler (index.ts
\* 363-383).  createPdfFile makes the per-page directory (269), the writer
\* opens the PDF file (270) and the finally removes the directory (290-293)
\* whether the page loop returned or threw.  The call of line 364 is outside
\* the try of 366, so when createPdfFile throws the finally of 376-382 is
\* not reached and no timeout is set for the file.
PdfFiles(f, p, outcome) ==
    LET kept    == [f EXCEPT !.stale[p] = IF f.timer[p] THEN @ + 1 ELSE @,
                             !.timer[p] = FALSE]
        made    == [kept EXCEPT !.dir[p] = TRUE]
        opened  == [made EXCEPT !.pdf[p] = "ondisk"]
        cleaned == [opened EXCEPT !.dir[p] = FALSE]
    IN  IF outcome = "build"
        THEN cleaned
        ELSE [cleaned EXCEPT !.timer[p] = TRUE]

\* the downloads answer and the output is built (index.ts 343-392)
HandlerRender(p) ==
    /\ pc[p] = "h_download"
    /\ \E okSet \in SUBSET (1..loc[p].n), order \in CompletionOrders(loc[p].n),
          outcome \in PdfOutcomes :
         LET bufs == ImageBuffers(loc[p].n, okSet, order)
             isPdf == Len(bufs) > 0 /\ ShouldCreatePdf(loc[p].x_restrict, Len(bufs))
             \* pdfOk: createPdfFile and readFile do not throw (when they are called)
             pdfOk == outcome = "ok"
         IN
         /\ ~pdfOk => isPdf
         /\ outcome = "read" => config.pdfSendMode = "buffer"
         /\ files' = IF files.rec /\ isPdf THEN PdfFiles(files, p, outcome) ELSE files
         /\ loc' = [loc EXCEPT
                ![p].imageBuffers = bufs,
                ![p].downloaded = okSet,
                ![p].content =
                    Render(loc[p].x_restrict, bufs, IsSubscription(p), Platform(p), pdfOk)]
    /\ pc' = [pc EXCEPT ![p] = "h_ret"]
    /\ UNCHANGED <<plugin, config, accessToken, db, req, obs, lastRefresh, prev>>

\* the timeout of index.ts 379-381 fires for task p's PDF file, or for an
\* earlier one: the file is unlinked
UnlinkTimer(p) ==
    /\ \/ /\ files.stale[p] > 0
          /\ files' = [files EXCEPT !.stale[p] = @ - 1]
       \/ /\ files.timer[p]
          /\ files' = [files EXCEPT !.timer[p] = FALSE, !.pdf[p] = "deleted"]
    /\ UNCHANGED <<plugin, config, accessToken, db, pc, loc, req, obs, lastRefresh, prev>>

-----------------------------------------------------------------------------
(* checkAndPushUpdates (index.ts 402-471) *)

\* index.ts 416
ValidSub(i) ==
    /\ Subscriptions[i].uid # Null
    /\ Len(Subscriptions[i].channelIds) > 0

\* the first subscription from i on that the loop does not skip
NextSub(i) ==
    IF \E j \in i..Len(Subscriptions) : ValidSub(j)
    THEN CHOOSE j \in i..Len(Subscriptions) :
            ValidSub(j) /\ \A k \in i..(j - 1) : ~ValidSub(k)
    ELSE Len(Subscriptions) + 1

Sub(p) == Subscriptions[loc[p].idx]

\* IsNew without the comparison with the record
IsNewAlways(latestId, lastIdInDb) == TRUE

\* index.ts 437
IsNew(latestId, lastIdInDb) ==
    lastIdInDb = Null \/ latestId # lastIdInDb

\* ShouldPush without the test of isManualTrigger
ShouldPushWhenever(isNew, isManualTrigger, latestId) ==
    isNew \/ latestId # Null

\* index.ts 438
ShouldPush(isNew, isManualTrigger, latestId) ==
    isNew \/ (isManualTrigger /\ latestId # Null)

\* the loop of index.ts 415 reaches subscription i (past the end: 469-470);
\* l holds the locals to go on with
EnterAuthor(p, l, i) ==
    IF i > Len(Subscriptions)
    THEN /\ pc' = [pc EXCEPT ![p] = "c_done"]
         /\ loc' = [loc EXCEPT ![p] = [LocIdle EXCEPT !.kind = l.kind,
                                                     !.updatesFound = l.updatesFound,
                                                     !.pushed = l.pushed,
                                                     !.bot = l.bot]]
         /\ req' = [req EXCEPT ![p] = ReqIdle]
         /\ obs' = [obs EXCEPT ![p] = ObsIdle]
    ELSE /\ pc' = [pc EXCEPT ![p] = "c_fetch"]
         /\ loc' = [loc EXCEPT ![p] = [LocIdle EXCEPT !.kind = l.kind,
                                                     !.updatesFound = l.updatesFound,
                                                     !.pushed = l.pushed,
                                                     !.bot = l.bot,
                                                     !.idx = i]]
         /\ req' = [req EXCEPT ![p] = StartRequest]
         /\ obs' = [obs EXCEPT ![p] = ObsIdle]

\* the iteration for the current author is over (continue, the catch of
\* index.ts 465, or the end of the loop body)
EndAuthor(p, l) ==
    /\ pc' = [pc EXCEPT ![p] = "c_next"]
    /\ loc' = [loc EXCEPT ![p] = l]

\* CatchAuthorError with the throw leaving the loop
CatchOutsideLoop(p, l) ==
    /\ pc' = [pc EXCEPT ![p] = "c_done"]
    /\ loc' = [loc EXCEPT ![p] = l]

\* a rejected database call lands in the catch of index.ts 465-467, which is
\* inside the loop: the error is logged and the loop goes on
CatchAuthorError(p, l) == EndAuthor(p, l)

\* GoesOn without the test of the bot
GoesOnAnyway(bot) == TRUE

\* index.ts 408-412: the cycle returns at once unless the bot was found
GoesOn(bot) == bot

\* a timed tick (index.ts 566) or pixivcheck (533-538) starts a cycle
\* (402-415); online: whether ctx.bots holds the push bot with status 1
CycleStart(p, isManualTrigger) ==
    /\ pc[p] = "idle"
    /\ IF isManualTrigger THEN plugin.loaded ELSE plugin.timers > 0
    /\ config.enableSubscription
    /\ prev' = IF isManualTrigger THEN prev ELSE PrevNone(prev.uid)
    /\ \E online \in BOOLEAN :
         LET l == [LocIdle EXCEPT
                      !.kind = IF isManualTrigger THEN "manual" ELSE "timed",
                      !.bot = online]
         IN IF GoesOn(online)
            THEN EnterAuthor(p, l, NextSub(1))
            ELSE /\ pc' = [pc EXCEPT ![p] = "c_offline"]
                 /\ loc' = [loc EXCEPT ![p] = l]
                 /\ UNCHANGED <<req, obs>>
    /\ UNCHANGED <<files, plugin, config, accessToken, db, lastRefresh>>

\* getUserIllusts answers (index.ts 241-249, 421-432); latest = Null: the
\* listing is null or empty
CycleFetched(p) ==
    /\ pc[p] = "c_fetch"
    /\ ReqDone(p)
    /\ req' = [req EXCEPT ![p] = ReqIdle]
    /\ \E latest \in 0..MaxId :
         /\ req[p].st = "err" => latest = Null
         /\ IF latest = Null
            THEN EndAuthor(p, loc[p])
            ELSE /\ pc' = [pc EXCEPT ![p] = "c_dbget"]
                 /\ loc' = [loc EXCEPT ![p].latestId = latest]
    /\ UNCHANGED <<files, plugin, config, accessToken, db, obs, lastRefresh, prev>>

\* database.get answers (index.ts 432-446)
CycleDbGet(p) ==
    /\ pc[p] = "c_dbget"
    /\ \/ /\ CatchAuthorError(p, loc[p])       \* database.get throws
          /\ UNCHANGED <<req, obs>>
       \/ LET lastIdInDb == db[Sub(p).uid]
              isNew == IsNew(loc[p].latestId, lastIdInDb)
              l == [loc[p] EXCEPT !.lastIdInDb = lastIdInDb]
          IN  /\ obs' = [obs EXCEPT ![p].read = TRUE]
              /\ IF ShouldPush(isNew, loc[p].kind = "manual", loc[p].latestId)
                 THEN CallHandler(p, [l EXCEPT !.updatesFound = l.updatesFound + 1])
                 ELSE /\ IF isNew
                         THEN /\ pc' = [pc EXCEPT ![p] = "c_upsert"]
                              /\ loc' = [loc EXCEPT ![p] = l]
                         ELSE EndAuthor(p, l)
                      /\ req' = req
    /\ UNCHANGED <<files, plugin, config, accessToken, db, lastRefresh, prev>>

\* handlePixivRequest has returned to the cycle (index.ts 446-452)
CycleRendered(p) ==
    /\ pc[p] = "h_ret"
    /\ IsCycle(p)
    /\ IF loc[p].content.kind = "null"
       THEN EndAuthor(p, loc[p])
       ELSE /\ pc' = [pc EXCEPT ![p] = "c_send"]
            /\ loc' = [loc EXCEPT ![p].ch = 1,
                                  ![p].pushed = IF loc[p].kind = "manual"
                                                THEN @ + 1 ELSE @]
    /\ UNCHANGED <<files, plugin, config, accessToken, db, req, obs, lastRefresh, prev>>

\* MoreChannels with a failed send ending the loop
MoreChannelsUnlessFailed(ch, channelIds, ok) == ok /\ ch < Len(channelIds)

\* index.ts 452-458: the catch is inside the loop over sub.channelIds, so the
\* loop goes on to the next channel whether the send answered or threw
MoreChannels(ch, channelIds, ok) == ch < Len(channelIds)

\* bot.sendMessage to the next channel answers or throws (index.ts 452-461)
CycleSend(p) ==
    /\ pc[p] = "c_send"
    /\ LET l == loc[p] IN
       \E ok \in BOOLEAN :
          /\ obs' = [obs EXCEPT ![p].sent =
                        Append(@, [channelId |-> Sub(p).channelIds[l.ch], ok |-> ok])]
          /\ IF MoreChannels(l.ch, Sub(p).channelIds, ok)
             THEN /\ loc' = [loc EXCEPT ![p].ch = l.ch + 1]
                  /\ pc' = pc
             ELSE IF IsNew(l.latestId, l.lastIdInDb)
                  THEN /\ pc' = [pc EXCEPT ![p] = "c_upsert"]
                       /\ loc' = loc
                  ELSE EndAuthor(p, l)
    /\ UNCHANGED <<files, plugin, config, accessToken, db, req, lastRefresh, prev>>

\* database.upsert answers or throws (index.ts 461-467)
CycleUpsert(p) ==
    /\ pc[p] = "c_upsert"
    /\ \E ok \in BOOLEAN :
         /\ db' = IF ok THEN [db EXCEPT ![Sub(p).uid] = loc[p].latestId] ELSE db
         /\ obs' = [obs EXCEPT ![p].wrote =
                        Append(@, [id |-> loc[p].latestId, ok |-> ok])]
         /\ IF ok THEN EndAuthor(p, loc[p]) ELSE CatchAuthorError(p, loc[p])
    /\ UNCHANGED <<files, plugin, config, accessToken, req, lastRefresh, prev>>

\* the channels of a sequence of sends
SentChannels(sent) == [i \in 1..Len(sent) |-> sent[i].channelId]

\* what the iteration that just ended did for its author: the id fetched,
\* whether content was rendered, the channels a send was attempted to, the
\* number of writes that took effect
Summary(p) ==
    [valid |-> TRUE, uid |-> Sub(p).uid, latestId |-> loc[p].latestId,
     rendered |-> loc[p].content.kind \notin {"none", "null"},
     sent |-> SentChannels(obs[p].sent),
     stored |-> Len(SelectSeq(obs[p].wrote, LAMBDA w : w.ok))]

\* on to the next subscription (index.ts 415)
CycleNext(p) ==
    /\ pc[p] = "c_next"
    /\ EnterAuthor(p, loc[p], NextSub(loc[p].idx + 1))
    /\ prev' = IF loc[p].kind = "manual" /\ prev.uid = Sub(p).uid
               THEN Summary(p)
               ELSE prev
    /\ UNCHANGED <<files, plugin, config, accessToken, db, lastRefresh>>

\* the cycle returns (index.ts 411, 469-470)
CycleReturn(p) ==
    /\ pc[p] \in {"c_done", "c_offline"}
    /\ pc' = [pc EXCEPT ![p] = "idle"]
    /\ loc' = [loc EXCEPT ![p] = LocIdle]
    /\ UNCHANGED <<files, plugin, config, accessToken, db, req, obs, lastRefresh, prev>>

-----------------------------------------------------------------------------
(* The ready handler (index.ts 551-564) *)

ReadyEnter(p, i) ==
    /\ pc' = [pc EXCEPT ![p] = IF i > Len(Subscriptions) THEN "r_done" ELSE "r_dbget"]
    /\ loc' = [loc EXCEPT ![p] = [LocIdle EXCEPT !.kind = "ready", !.idx = i]]
    /\ obs' = [obs EXCEPT ![p] = ObsIdle]

\* the ready event fires (index.ts 551-555)
ReadyStart(p) ==
    /\ pc[p] = "idle"
    /\ plugin.loaded
    /\ config.enableSubscription
    /\ ReadyEnter(p, 1)
    /\ prev' = PrevNone(prev.uid)
    /\ UNCHANGED <<files, plugin, config, accessToken, db, req, lastRefresh>>

\* NeedsSeed without the test of the record
NeedsSeedAlways(record) == TRUE

\* index.ts 556: record.length === 0
NeedsSeed(record) == record = Null

\* database.get answers (index.ts 555-557); if it throws the pass is over
ReadyDbGet(p) ==
    /\ pc[p] = "r_dbget"
    /\ \/ /\ pc' = [pc EXCEPT ![p] = "r_done"]
          /\ UNCHANGED <<req, obs>>
       \/ /\ obs' = [obs EXCEPT ![p].read = TRUE]
          /\ IF NeedsSeed(db[Sub(p).uid])
             THEN /\ pc' = [pc EXCEPT ![p] = "r_fetch"]
                  /\ req' = [req EXCEPT ![p] = StartRequest]
             ELSE /\ pc' = [pc EXCEPT ![p] = "r_next"]
                  /\ req' = req
    /\ loc' = [loc EXCEPT ![p].lastIdInDb = IF pc'[p] = "r_done" THEN Null
                                            ELSE db[Sub(p).uid]]
    /\ UNCHANGED <<files, plugin, config, accessToken, db, lastRefresh, prev>>

\* getUserIllusts answers (index.ts 557-559)
ReadyFetched(p) ==
    /\ pc[p] = "r_fetch"
    /\ ReqDone(p)
    /\ req' = [req EXCEPT ![p] = ReqIdle]
    /\ \E latest \in 0..MaxId :
         /\ req[p].st = "err" => latest = Null
         /\ loc' = [loc EXCEPT ![p].latestId = latest]
         /\ pc' = [pc EXCEPT ![p] = IF latest = Null THEN "r_next" ELSE "r_create"]
    /\ UNCHANGED <<files, plugin, config, accessToken, db, obs, lastRefresh, prev>>

\* database.create answers (index.ts 559); it throws on an existing row, and
\* then the pass is over
ReadyCreate(p) ==
    /\ pc[p] = "r_create"
    /\ \E ok \in BOOLEAN :
         /\ ok => db[Sub(p).uid] = Null
         /\ db' = IF ok THEN [db EXCEPT ![Sub(p).uid] = loc[p].latestId] ELSE db
         /\ obs' = [obs EXCEPT ![p].wrote =
                        Append(@, [id |-> loc[p].latestId, ok |-> ok])]
         /\ pc' = [pc EXCEPT ![p] = IF ok THEN "r_next" ELSE "r_done"]
    /\ UNCHANGED <<files, plugin, config, accessToken, loc, req, lastRefresh, prev>>

\* on to the next subscription (index.ts 554)
ReadyNext(p) ==
    /\ pc[p] = "r_next"
    /\ ReadyEnter(p, loc[p].idx + 1)
    /\ UNCHANGED <<files, plugin, config, accessToken, db, req, lastRefresh, prev>>

ReadyReturn(p) ==
    /\ pc[p] = "r_done"
    /\ pc' = [pc EXCEPT ![p] = "idle"]
    /\ loc' = [loc EXCEPT ![p] = LocIdle]
    /\ obs' = [obs EXCEPT ![p] = ObsIdle]
    /\ UNCHANGED <<files, plugin, config, accessToken, db, req, lastRefresh, prev>>

-----------------------------------------------------------------------------
(* The pid command (index.ts 473-478), the link middleware (540-547) and   *)
(* pixivtest (519-531)                                                     *)

\* source: "pid" or "link"; platform: session.platform
RequestStart(p, source) ==
    /\ pc[p] = "idle"
    /\ plugin.loaded
    /\ \E platform \in Platforms :
         CallHandler(p, [LocIdle EXCEPT !.kind = source, !.platform = platform])
    /\ UNCHANGED <<files, plugin, config, accessToken, db, obs, lastRefresh, prev>>

\* index.ts 477 and 546: the result is sent to the session
RequestReply(p) ==
    /\ pc[p] = "h_ret"
    /\ loc[p].kind \in {"pid", "link"}
    /\ obs' = [obs EXCEPT ![p].msg = loc[p].content]
    /\ pc' = [pc EXCEPT ![p] = "i_done"]
    /\ UNCHANGED <<files, plugin, config, accessToken, db, loc, req, lastRefresh, prev>>

\* index.ts 520-524
TestStart(p) ==
    /\ pc[p] = "idle"
    /\ plugin.loaded
    /\ config.enableSubscription
    /\ \E platform \in Platforms :
         loc' = [loc EXCEPT ![p] = [LocIdle EXCEPT !.kind = "test", !.platform = platform]]
    /\ pc' = [pc EXCEPT ![p] = "t_fetch"]
    /\ req' = [req EXCEPT ![p] = StartRequest]
    /\ UNCHANGED <<files, plugin, config, accessToken, db, obs, lastRefresh, prev>>

\* getUserIllusts answers (index.ts 524-528)
TestFetched(p) ==
    /\ pc[p] = "t_fetch"
    /\ ReqDone(p)
    /\ \E latest \in 0..MaxId :
         /\ req[p].st = "err" => latest = Null
         /\ IF latest = Null
            THEN /\ pc' = [pc EXCEPT ![p] = "i_done"]
                 /\ obs' = [obs EXCEPT ![p].msg = Text("noartworks")]
                 /\ req' = [req EXCEPT ![p] = ReqIdle]
                 /\ loc' = loc
            ELSE /\ CallHandler(p, [loc[p] EXCEPT !.latestId = latest])
                 /\ obs' = obs
    /\ UNCHANGED <<files, plugin, config, accessToken, db, lastRefresh, prev>>

\* index.ts 529-530
TestReply(p) ==
    /\ pc[p] = "h_ret"
    /\ loc[p].kind = "test"
    /\ obs' = [obs EXCEPT ![p].msg = IF loc[p].content.kind # "null"
                                     THEN loc[p].content
                                     ELSE Text("genfail")]
    /\ pc' = [pc EXCEPT ![p] = "i_done"]
    /\ UNCHANGED <<files, plugin, config, accessToken, db, loc, req, lastRefresh, prev>>

\* the command or middleware is over
RequestReturn(p) ==
    /\ pc[p] = "i_done"
    /\ pc' = [pc EXCEPT ![p] = "idle"]
    /\ loc' = [loc EXCEPT ![p] = LocIdle]
    /\ obs' = [obs EXCEPT ![p] = ObsIdle]
    /\ UNCHANGED <<files, plugin, config, accessToken, db, req, lastRefresh, prev>>

-----------------------------------------------------------------------------
(* The plugin instance (apply, index.ts 251-261 and 549-571) *)

\* ClearInterval leaving the interval armed
ClearIntervalNot(timers) == timers

\* index.ts 568: the dispose handler clears the interval its apply has armed
ClearInterval(timers) == timers - 1

\* index.ts 566: apply arms one interval if the subscription feature is on
SetInterval(timers, enableSubscription) ==
    IF enableSubscription THEN timers + 1 ELSE timers

\* the plugin once apply has run for the n-th time
Loaded(n) == [loaded |-> TRUE, timers |-> SetInterval(0, TRUE), loads |-> n]

\* the host loads the plugin again, with any configuration of cs, once the
\* activities of the instance before have returned: apply makes a new
\* PixivService, whose token is empty (index.ts 135, 260), and arms the
\* interval (549, 566)
Apply(cs) ==
    /\ ~plugin.loaded
    /\ plugin.loads < MaxLoads
    /\ \A p \in Tasks : pc[p] \in {"idle", "off"}
    /\ config' \in cs
    /\ plugin' = [loaded |-> TRUE,
                  timers |-> SetInterval(plugin.timers, config'.enableSubscription),
                  loads |-> plugin.loads + 1]
    /\ accessToken' = Null
    /\ UNCHANGED <<files, db, pc, loc, req, obs, lastRefresh, prev>>

\* the dispose event (index.ts 567-570); the activities in progress go on
Dispose ==
    /\ plugin.loaded
    /\ plugin' = [plugin EXCEPT
                    !.loaded = FALSE,
                    !.timers = IF config.enableSubscription
                               THEN ClearInterval(@) ELSE @]
    /\ UNCHANGED <<files, config, accessToken, db, pc, loc, req, obs, lastRefresh, prev>>

-----------------------------------------------------------------------------
(* Specifications *)

\* a new plugin instance on an empty table; one activity at a time (task 1)
Init ==
    /\ config \in Configs
    /\ plugin = Loaded(1)
    /\ files = FilesOff
    /\ accessToken = Null
    /\ db = [a \in Authors |-> Null]
    /\ pc = [p \in Tasks |-> IF p = 1 THEN "idle" ELSE "off"]
    /\ loc = [p \in Tasks |-> LocIdle]
    /\ req = [p \in Tasks |-> ReqIdle]
    /\ obs = [p \in Tasks |-> ObsIdle]
    /\ lastRefresh = [outcome |-> "off", tok |-> Null]
    /\ prev = PrevNone(Null)

Next ==
    \E p \in Tasks :
        \/ RefreshReturn(p)
        \/ SendReturn(p)
        \/ HandlerDetail(p)
        \/ HandlerRender(p)
        \/ CycleStart(p, FALSE)
        \/ CycleStart(p, TRUE)
        \/ CycleFetched(p)
        \/ CycleDbGet(p)
        \/ CycleRendered(p)
        \/ CycleSend(p)
        \/ CycleUpsert(p)
        \/ CycleNext(p)
        \/ CycleReturn(p)
        \/ ReadyStart(p)
        \/ ReadyDbGet(p)
        \/ ReadyFetched(p)
        \/ ReadyCreate(p)
        \/ ReadyNext(p)
        \/ ReadyReturn(p)
        \/ RequestStart(p, "pid")
        \/ RequestStart(p, "link")
        \/ RequestReply(p)
        \/ TestStart(p)
        \/ TestFetched(p)
        \/ TestReply(p)
        \/ RequestReturn(p)

Spec == Init /\ [][Next]_vars

\* the credential manager under pid commands and link matches, with the last
\* token exchange recorded
InitCred ==
    /\ config \in Configs
    /\ plugin = Loaded(1)
    /\ files = FilesOff
    /\ accessToken = Null
    /\ db = [a \in Authors |-> Null]
    /\ pc = [p \in Tasks |-> IF p = 1 THEN "idle" ELSE "off"]
    /\ loc = [p \in Tasks |-> LocIdle]
    /\ req = [p \in Tasks |-> ReqIdle]
    /\ obs = [p \in Tasks |-> ObsIdle]
    /\ lastRefresh = [outcome |-> "none", tok |-> Null]
    /\ prev = PrevNone(Null)

NextCred ==
    \E p \in Tasks :
        \/ RefreshReturn(p)
        \/ SendReturn(p)
        \/ HandlerDetail(p)
        \/ HandlerRender(p)
        \/ RequestStart(p, "pid")
        \/ RequestStart(p, "link")
        \/ RequestReply(p)
        \/ RequestReturn(p)

SpecCred == InitCred /\ [][NextCred]_vars

\* manual triggers only, one after the other, with one author's iteration
\* of the run before recorded
InitManual ==
    /\ config \in {c \in Configs : c.refreshToken /\ c.autoPdfForR18 /\ c.pdfThreshold = 2}
    /\ plugin = Loaded(1)
    /\ files = FilesOff
    /\ accessToken = Null
    /\ db = [a \in Authors |-> Null]
    /\ pc = [p \in Tasks |-> IF p = 1 THEN "idle" ELSE "off"]
    /\ loc = [p \in Tasks |-> LocIdle]
    /\ req = [p \in Tasks |-> ReqIdle]
    /\ obs = [p \in Tasks |-> ObsIdle]
    /\ lastRefresh = [outcome |-> "off", tok |-> Null]
    /\ \E a \in Authors : prev = PrevNone(a)

NextManual ==
    \E p \in Tasks :
        \/ RefreshReturn(p)
        \/ SendReturn(p)
        \/ HandlerDetail(p)
        \/ HandlerRender(p)
        \/ CycleStart(p, TRUE)
        \/ CycleFetched(p)
        \/ CycleDbGet(p)
        \/ CycleRendered(p)
        \/ CycleSend(p)
        \/ CycleUpsert(p)
        \/ CycleNext(p)
        \/ CycleReturn(p)

SpecManual == InitManual /\ [][NextManual]_vars

\* the steps a cycle takes once it has started: each is the return of an
\* await
CycleStep(p) ==
    \/ RefreshReturn(p)
    \/ SendReturn(p)
    \/ HandlerDetail(p)
    \/ HandlerRender(p)
    \/ CycleFetched(p)
    \/ CycleDbGet(p)
    \/ CycleRendered(p)
    \/ CycleSend(p)
    \/ CycleUpsert(p)
    \/ CycleNext(p)
    \/ CycleReturn(p)

\* polling cycles, timed and manual, one at a time
InitLive ==
    /\ config \in {c \in Configs : /\ c.refreshToken
                                   /\ c.r18Action = "block"
                                   /\ ~c.autoPdfForR18
                                   /\ c.pdfThreshold = 2}
    /\ plugin = Loaded(1)
    /\ files = FilesOff
    /\ accessToken = Null
    /\ db = [a \in Authors |-> Null]
    /\ pc = [p \in Tasks |-> IF p = 1 THEN "idle" ELSE "off"]
    /\ loc = [p \in Tasks |-> LocIdle]
    /\ req = [p \in Tasks |-> ReqIdle]
    /\ obs = [p \in Tasks |-> ObsIdle]
    /\ lastRefresh = [outcome |-> "off", tok |-> Null]
    /\ prev = PrevNone(Null)

NextLive ==
    \E p \in Tasks :
        \/ CycleStart(p, FALSE)
        \/ CycleStart(p, TRUE)
        \/ CycleStep(p)

\* every await of a cycle settles: the requests carry timeouts, the database
\* and the bot answer or reject, and the continuation then runs
SpecLive ==
    InitLive /\ [][NextLive]_vars /\ \A p \in Tasks : WF_vars(CycleStep(p))

\* the configurations of the load / dispose specification
TimerConfigs ==
    {c \in Configs : /\ c.refreshToken
                     /\ c.r18Action = "block"
                     /\ ~c.autoPdfForR18}

\* a plugin that is loaded, disposed of and loaded again while its timer
\* starts polling cycles
InitTimer ==
    /\ config \in TimerConfigs
    /\ plugin = Loaded(1)
    /\ files = FilesOff
    /\ accessToken = Null
    /\ db = [a \in Authors |-> Null]
    /\ pc = [p \in Tasks |-> IF p = 1 THEN "idle" ELSE "off"]
    /\ loc = [p \in Tasks |-> LocIdle]
    /\ req = [p \in Tasks |-> ReqIdle]
    /\ obs = [p \in Tasks |-> ObsIdle]
    /\ lastRefresh = [outcome |-> "off", tok |-> Null]
    /\ prev = PrevNone(Null)

NextTimer ==
    \/ Apply(TimerConfigs)
    \/ Dispose
    \/ \E p \in Tasks :
          \/ CycleStart(p, FALSE)
          \/ CycleStep(p)

SpecTimer == InitTimer /\ [][NextTimer]_vars

\* two sessions at once: pid commands and link matches that are suspended at
\* their awaits together, sharing the one PixivService
InitShared ==
    /\ config \in {c \in Configs : c.refreshToken /\ c.r18Action = "send"}
    /\ plugin = Loaded(1)
    /\ files = FilesOff
    /\ accessToken = Null
    /\ db = [a \in Authors |-> Null]
    /\ pc = [p \in Tasks |-> "idle"]
    /\ loc = [p \in Tasks |-> LocIdle]
    /\ req = [p \in Tasks |-> ReqIdle]
    /\ obs = [p \in Tasks |-> ObsIdle]
    /\ lastRefresh = [outcome |-> "off", tok |-> Null]
    /\ prev = PrevNone(Null)

NextShared ==
    \E p \in Tasks :
        \/ RefreshReturn(p)
        \/ SendReturn(p)
        \/ HandlerDetail(p)
        \/ HandlerRender(p)
        \/ RequestStart(p, "pid")
        \/ RequestStart(p, "link")
        \/ RequestReply(p)
        \/ RequestReturn(p)

SpecShared == InitShared /\ [][NextShared]_vars

\* task p is not in a cycle, or its cycle is suspended at a database call
AtDatabase(p) == pc[p] \in {"idle", "c_dbget", "c_upsert"}

\* the timer and the pixivcheck command at once: task 1 runs the cycles the
\* interval starts, task 2 the cycles the command starts.  Of the schedules
\* of the two, those are taken in which a task runs while the other is
\* suspended at a call of the database.
InitOverlap ==
    /\ config \in {c \in Configs : /\ c.refreshToken
                                   /\ c.r18Action = "block"
                                   /\ ~c.autoPdfForR18
                                   /\ c.pdfThreshold = 0}
    /\ plugin = Loaded(1)
    /\ files = FilesOff
    /\ accessToken = Null
    /\ db = [a \in Authors |-> Null]
    /\ pc = [p \in Tasks |-> "idle"]
    /\ loc = [p \in Tasks |-> LocIdle]
    /\ req = [p \in Tasks |-> ReqIdle]
    /\ obs = [p \in Tasks |-> ObsIdle]
    /\ lastRefresh = [outcome |-> "off", tok |-> Null]
    /\ prev = PrevNone(Null)

NextOverlap ==
    \/ AtDatabase(2) /\ CycleStart(1, FALSE)
    \/ AtDatabase(1) /\ CycleStart(2, TRUE)
    \/ \E p \in Tasks :
          /\ \A q \in Tasks \ {p} : AtDatabase(q)
          /\ CycleStep(p)

SpecOverlap == InitOverlap /\ [][NextOverlap]_vars

\* the configurations of the PDF specification: both ways of sending the PDF
PdfConfigs ==
    {[c EXCEPT !.pdfSendMode = m] :
        c \in {d \in Configs : /\ d.refreshToken
                               /\ d.r18Action = "send"
                               /\ ~d.autoPdfForR18
                               /\ d.pdfThreshold = 2},
        m \in {"buffer", "file"}}

\* no timeout of task p is waiting to unlink a PDF
NoTimeout(p) == ~files.timer[p] /\ files.stale[p] = 0

\* pid commands and manual cycles that render PDFs, with temporary storage
\* recorded; a new command or cycle comes once the timeouts of the one
\* before have fired
InitPdf ==
    /\ config \in PdfConfigs
    /\ plugin = Loaded(1)
    /\ files = FilesEmpty
    /\ accessToken = Null
    /\ db = [a \in Authors |-> Null]
    /\ pc = [p \in Tasks |-> IF p = 1 THEN "idle" ELSE "off"]
    /\ loc = [p \in Tasks |-> LocIdle]
    /\ req = [p \in Tasks |-> ReqIdle]
    /\ obs = [p \in Tasks |-> ObsIdle]
    /\ lastRefresh = [outcome |-> "off", tok |-> Null]
    /\ prev = PrevNone(Null)

NextPdf ==
    \E p \in Tasks :
        \/ NoTimeout(p) /\ RequestStart(p, "pid")
        \/ NoTimeout(p) /\ CycleStart(p, TRUE)
        \/ CycleStep(p)
        \/ RequestReply(p)
        \/ RequestReturn(p)
        \/ UnlinkTimer(p)

SpecPdf == InitPdf /\ [][NextPdf]_vars

-----------------------------------------------------------------------------
(* Properties *)

\* task p has finished the loop body for an author whose record it read
IterationDone(p) == IsCycle(p) /\ pc[p] = "c_next" /\ obs[p].read

Channels(p) == Sub(p).channelIds

\* C1: in every polling cycle, an author whose fetched latest id differs from
\* the last-seen id read (or who has no record) gets exactly one persistence
\* write of the new id in that cycle, whatever became of rendering and delivery.
C1_OneWriteForNewId ==
    \A p \in Tasks :
        (/\ IterationDone(p)
         /\ (loc[p].lastIdInDb = Null \/ loc[p].latestId # loc[p].lastIdInDb))
        => /\ Len(obs[p].wrote) = 1
           /\ obs[p].wrote[1].id = loc[p].latestId

\* C2: in a cycle that is not manually triggered, an author whose fetched
\* latest id equals the last-seen id read gets no delivery call and no
\* persistence write.
C2_SeenIdIsSilent ==
    \A p \in Tasks :
        (/\ loc[p].kind = "timed"
         /\ obs[p].read
         /\ loc[p].latestId = loc[p].lastIdInDb)
        => /\ pc[p] = "c_next"
           /\ obs[p].sent = <<>>
           /\ obs[p].wrote = <<>>
           /\ obs[p].dl = 0

C2_Witness ==
    \E p \in Tasks :
        /\ loc[p].kind = "timed"
        /\ IterationDone(p)
        /\ loc[p].latestId = loc[p].lastIdInDb

\* C3 as claimed: a last-seen id, once set, is only ever replaced by a
\* strictly newer (greater) id.
C3_OnlyNewerIds ==
    [][\A a \in Authors : (db[a] # Null /\ db'[a] # db[a]) => db'[a] > db[a]]_vars

\* C3 as amended: every write stores the id the writing pass has just fetched
\* as that author's latest, and only when that id differs from the last-seen
\* id the pass read (the ready pass: only when it read no record); the id
\* stored may be older than the one it replaces.
C3_WritesFetchedIdThatDiffers ==
    [][/\ \A p \in Tasks :
            Len(obs'[p].wrote) > Len(obs[p].wrote)
            => /\ obs'[p].wrote[Len(obs'[p].wrote)].id = loc[p].latestId
               /\ loc[p].latestId \in 1..MaxId
               /\ loc[p].latestId # loc[p].lastIdInDb
               /\ loc[p].kind = "ready" => loc[p].lastIdInDb = Null
               /\ db' \in {db, [db EXCEPT ![Sub(p).uid] = loc[p].latestId]}
       /\ db' # db => \E p \in Tasks : Len(obs'[p].wrote) > Len(obs[p].wrote)]_vars

C3_Witness ==
    \E p \in Tasks :
        /\ IterationDone(p)
        /\ loc[p].lastIdInDb # Null
        /\ loc[p].latestId < loc[p].lastIdInDb
        /\ db[Sub(p).uid] = loc[p].latestId
        /\ Len(obs[p].wrote) = 1

\* the watched author's iteration has ended in a manual run that follows a
\* manual run in which the same latest id was fetched
SecondManualRun(p) ==
    /\ loc[p].kind = "manual"
    /\ pc[p] = "c_next"
    /\ prev.valid
    /\ prev.uid = Sub(p).uid
    /\ loc[p].latestId # Null
    /\ prev.latestId = loc[p].latestId

\* C4 as claimed: two manual triggers in succession with the latest artwork
\* unchanged push that artwork in each run, with at most one persistence
\* write in total.
C4_TwoPushesOneWrite ==
    \A p \in Tasks :
        SecondManualRun(p)
        => /\ prev.sent # <<>>
           /\ obs[p].sent # <<>>
           /\ prev.stored + Summary(p).stored <= 1

\* C4 as amended: of two manual triggers in succession with the same latest
\* id fetched, each run whose handler yields content attempts a delivery to
\* every channel of the author, a run whose handler yields no content
\* delivers nothing, and at most one persistence write takes effect in total.
C4_PushWhenRenderedOneWrite ==
    \A p \in Tasks :
        SecondManualRun(p)
        => /\ prev.rendered => prev.sent = Channels(p)
           /\ ~prev.rendered => prev.sent = <<>>
           /\ Summary(p).rendered => SentChannels(obs[p].sent) = Channels(p)
           /\ ~Summary(p).rendered => obs[p].sent = <<>>
           /\ prev.stored + Summary(p).stored <= 1

C4_Witness ==
    \E p \in Tasks :
        /\ SecondManualRun(p)
        /\ prev.rendered
        /\ Summary(p).rendered
        /\ prev.stored = 1
        /\ obs[p].wrote = <<>>
        /\ prev.sent = SentChannels(obs[p].sent)

\* C5: in one _request call whose first send fails with an authorization
\* failure there is exactly one token re-exchange and, if it succeeds, exactly
\* one resend; never a third send or a second re-exchange; any other failure
\* causes no re-exchange and no resend.
C5_OneRefreshOneRetry ==
    \A p \in Tasks :
        LET f == req[p] IN
        /\ f.sends <= 2
        /\ f.re <= 1
        /\ (f.st \in {"ok", "err"} /\ f.err # NoErr)
           => IF f.err.status = 400 /\ f.err.msg \in {"invalid_grant", "invalid_token"}
              THEN /\ f.re = 1
                   /\ f.reOut = "token" => f.sends = 2
                   /\ f.reOut # "token" => f.sends = 1
              ELSE /\ f.re = 0
                   /\ f.sends = 1

C5_Witness ==
    \E p \in Tasks :
        /\ req[p].st = "err"
        /\ req[p].re = 1
        /\ req[p].sends = 2
        /\ req[p].err2 # NoErr

\* C6: after an authorization failure, the caller of _request observes the
\* retry's error when the re-exchange succeeded and the retry failed, and the
\* original request's error when the re-exchange failed.
C6_SurfacedError ==
    \A p \in Tasks :
        LET f == req[p] IN
        (f.st = "err" /\ f.re = 1)
        => /\ f.reOut = "token" => (f.thrown = f.err2 /\ f.thrown.at = 2)
           /\ f.reOut # "token" => (f.thrown = f.err /\ f.thrown.at = 1)

C6_Witness ==
    \E p \in Tasks :
        /\ req[p].st = "err"
        /\ req[p].reOut = "token"
        /\ req[p].thrown.at = 2
        /\ req[p].err.status = 400

\* C7: the access token is empty at startup, is the newly issued token after
\* every successful refresh and is empty after every failed refresh (the
\* exchange throws or returns no token), so that the next protected call
\* exchanges before it sends.
C7_TokenFollowsRefresh ==
    /\ lastRefresh.outcome = "none" => accessToken = Null
    /\ lastRefresh.outcome = "token" => accessToken = lastRefresh.tok
    /\ lastRefresh.outcome \in {"notoken", "throw"} => accessToken = Null
    /\ \A p \in Tasks :
          (lastRefresh.outcome \in {"notoken", "throw"} /\ req[p].st = "send1")
          => req[p].pre = 1

\* an R-18 artwork was fetched by task p
FetchedR18(p) == loc[p].illust /\ loc[p].x_restrict > 0

NoImagesNoPdf(c) == c.imgs = <<>> /\ ~c.pdf

\* C8: with r18Action = 'warn', no image element and no PDF of an R-18
\* artwork is produced or delivered on any path; at most a text warning is sent.
C8_WarnSendsNoR18Images ==
    config.r18Action = "warn"
    => \A p \in Tasks :
          FetchedR18(p)
          => /\ obs[p].dl = 0
             /\ NoImagesNoPdf(loc[p].content)
             /\ NoImagesNoPdf(obs[p].msg)
             /\ loc[p].content.kind \in {"none", "warn"}
             /\ obs[p].sent = <<>>

\* C9: an interactive request (pid command or link match) for an R-18 artwork
\* under policy warn is answered by a text-only warning with the title and the
\* author; no image is downloaded, no image element emitted, no PDF created.
C9_InteractiveWarnIsTextOnly ==
    \A p \in Tasks :
        (/\ loc[p].kind \in {"pid", "link"}
         /\ config.r18Action = "warn"
         /\ FetchedR18(p))
        => /\ pc[p] \in {"h_ret", "i_done"}
           /\ obs[p].dl = 0
           /\ loc[p].content.kind = "warn"
           /\ loc[p].content.title /\ loc[p].content.author
           /\ NoImagesNoPdf(loc[p].content)
           /\ pc[p] = "i_done" => obs[p].msg = loc[p].content

C9_Witness ==
    \E p \in Tasks :
        /\ loc[p].kind \in {"pid", "link"}
        /\ config.r18Action = "warn"
        /\ FetchedR18(p)
        /\ pc[p] = "i_done"
        /\ obs[p].msg.kind = "warn"

\* C10: for an R-18 artwork under policy block, an interactive request gets
\* the block notice and nothing else; in the subscription path the handler
\* yields no payload, no block or warn text and no content is sent, and no
\* image is downloaded.
C10_BlockSendsNothing ==
    \A p \in Tasks :
        (config.r18Action = "block" /\ FetchedR18(p))
        => /\ obs[p].dl = 0
           /\ NoImagesNoPdf(loc[p].content)
           /\ loc[p].kind \in {"pid", "link"}
              => /\ loc[p].content = Text("block")
                 /\ obs[p].msg \in {NoContent, Text("block")}
                 /\ pc[p] = "i_done" => obs[p].msg = Text("block")
           /\ IsSubscription(p)
              => /\ loc[p].content = NullContent
                 /\ obs[p].sent = <<>>
                 /\ obs[p].msg \in {NoContent, Text("genfail")}
           /\ IsCycle(p) => pc[p] \in {"h_ret", "c_next"}

C10_Witness ==
    \E p \in Tasks :
        /\ config.r18Action = "block"
        /\ FetchedR18(p)
        /\ IsCycle(p)
        /\ pc[p] = "c_next"
        /\ loc[p].content = NullContent
        /\ obs[p].sent = <<>>

\* task p's handler has built its output from at least one downloaded image
Rendered(p) ==
    /\ pc[p] \notin {"idle", "off", "h_detail", "h_download"}
    /\ loc[p].imageBuffers # <<>>

\* the images of c are the downloaded images of task p, in the order of the
\* artwork's image urls
ImagesInOrder(p, c) ==
    /\ c.imgs = loc[p].imageBuffers
    /\ \A i, j \in 1..Len(c.imgs) : i < j => c.imgs[i] < c.imgs[j]
    /\ \A i \in 1..Len(c.imgs) : c.imgs[i] \in 1..loc[p].n

\* N >= T > 0 and the target platform is qq or onebot
ForwardCase(p) ==
    /\ config.forwardThreshold > 0
    /\ Len(loc[p].imageBuffers) >= config.forwardThreshold
    /\ Platform(p) \in {"qq", "onebot"}

\* the conditions under which the handler makes a PDF instead
PdfCase(p) ==
    \/ config.autoPdfForR18 /\ loc[p].x_restrict > 0
    \/ config.pdfThreshold > 0 /\ Len(loc[p].imageBuffers) >= config.pdfThreshold

Downloaded(p) ==
    /\ pc[p] \notin {"idle", "off", "h_detail", "h_download"}
    /\ loc[p].n > 0

\* c is a PDF whose pages are the images bufs, one page per image, in order
PdfOf(c, bufs) ==
    /\ c.kind = "pdf"
    /\ c.pdf
    /\ Len(c.imgs) = Len(bufs)
    /\ \A i \in 1..Len(bufs) : c.imgs[i] = bufs[i]

IsReady(p) == loc[p].kind = "ready"

\* the ready pass has dealt with the author at idx, whose record it read
SeedDone(p) == IsReady(p) /\ pc[p] = "r_next" /\ obs[p].read

\* C13 as claimed: the startup pass creates, for every configured author that
\* has no record, a record holding the author's current latest artwork id,
\* makes no delivery call, leaves an author that has a record unchanged, and
\* deals with every configured author.
C13_SeedsEveryAuthor ==
    \A p \in Tasks :
        IsReady(p)
        => /\ obs[p].sent = <<>> /\ obs[p].dl = 0
           /\ pc[p] = "r_done" => loc[p].idx > Len(Subscriptions)
           /\ (SeedDone(p) /\ loc[p].lastIdInDb = Null)
              => /\ db[Sub(p).uid] # Null
                 /\ db[Sub(p).uid] = loc[p].latestId
           /\ (obs[p].read /\ loc[p].lastIdInDb # Null)
              => /\ db[Sub(p).uid] = loc[p].lastIdInDb
                 /\ obs[p].wrote = <<>>

\* C13 as amended: the startup pass visits the configured authors in order;
\* for an author with no record whose listing gives a latest artwork it
\* creates a record holding that id; an author whose listing fails or is
\* empty is left without a record; an author that has a record is left
\* unchanged and not fetched; no delivery call and no download is made; the
\* pass ends before the last author only when database.get or
\* database.create throws.
C13_SeedsFetchedAuthors ==
    \A p \in Tasks :
        IsReady(p)
        => /\ obs[p].sent = <<>> /\ obs[p].dl = 0
           /\ (pc[p] = "r_done" /\ loc[p].idx <= Len(Subscriptions))
              => \/ ~obs[p].read
                 \/ /\ Len(obs[p].wrote) = 1
                    /\ ~obs[p].wrote[1].ok
           /\ (SeedDone(p) /\ loc[p].lastIdInDb = Null /\ loc[p].latestId # Null)
              => /\ db[Sub(p).uid] = loc[p].latestId
                 /\ obs[p].wrote = <<[id |-> loc[p].latestId, ok |-> TRUE]>>
           /\ (SeedDone(p) /\ loc[p].lastIdInDb = Null /\ loc[p].latestId = Null)
              => /\ db[Sub(p).uid] = Null
                 /\ obs[p].wrote = <<>>
           /\ (obs[p].read /\ loc[p].lastIdInDb # Null)
              => /\ pc[p] = "r_next"
                 /\ db[Sub(p).uid] = loc[p].lastIdInDb
                 /\ obs[p].wrote = <<>>
                 /\ loc[p].latestId = Null

C13_Witness ==
    \E p \in Tasks :
        /\ SeedDone(p)
        /\ loc[p].idx = 2
        /\ loc[p].lastIdInDb = Null
        /\ db[2] = loc[p].latestId
        /\ db[2] # Null
        /\ db[1] # Null
        /\ obs[p].wrote = <<[id |-> db[2], ok |-> TRUE]>>

\* task p is a cycle whose handler gave content for the current author
Pushing(p) ==
    /\ IsCycle(p)
    /\ pc[p] \in {"c_send", "c_upsert", "c_next"}
    /\ loc[p].content.kind \notin {"none", "null"}

\* C14: when an author's artwork is pushed, a delivery attempt is made to
\* every channel configured for that author, in list order, whether or not
\* the delivery to an earlier channel failed.
C14_EveryChannelAttempted ==
    \A p \in Tasks :
        Pushing(p)
        => /\ pc[p] = "c_send"
              => /\ loc[p].ch \in 1..Len(Channels(p))
                 /\ SentChannels(obs[p].sent) = SubSeq(Channels(p), 1, loc[p].ch - 1)
           /\ pc[p] \in {"c_upsert", "c_next"}
              => SentChannels(obs[p].sent) = Channels(p)

C14_Witness ==
    \E p \in Tasks :
        /\ Pushing(p)
        /\ pc[p] = "c_next"
        /\ Len(obs[p].sent) = 2
        /\ ~obs[p].sent[1].ok
        /\ obs[p].sent[2].channelId = Channels(p)[2]

\* task p's cycle has found the push bot online and is at the listing fetch
\* of subscription i
Checking(p, i) ==
    IsCycle(p) /\ pc[p] = "c_fetch" /\ loc[p].idx = i

\* C15: in every polling cycle that starts with the push bot online, every
\* configured author (with a uid and at least one channel) is eventually
\* checked, whatever error the listing fetch, rendering, delivery or
\* persistence of any other author raises, and the cycle terminates.
C15_EveryAuthorChecked ==
    \A p \in Tasks :
        /\ \A i \in 1..Len(Subscriptions) :
              ValidSub(i) => (Checking(p, NextSub(1)) ~> Checking(p, i))
        /\ Checking(p, NextSub(1)) ~> (pc[p] = "c_done")
        /\ (pc[p] = "c_done") ~> (pc[p] = "idle")

\* the cycle is at its second author after the first author's push was
\* started and failed to leave a record (no content, or a rejected write)
C15_Witness ==
    \E p \in Tasks :
        /\ Checking(p, 2)
        /\ db[1] = Null
        /\ loc[p].updatesFound = 1

\* C16: the count in the summary a manual trigger returns equals the number
\* of authors for which a push was performed in that run (content rendered
\* and delivery attempted); authors whose content generation failed or was
\* blocked are not counted.
C16_SummaryCountsPushes ==
    \A p \in Tasks :
        (loc[p].kind = "manual" /\ pc[p] = "c_done")
        => loc[p].updatesFound = loc[p].pushed

\* a timed polling cycle starts in this step
TimedCycleStarts(p) ==
    pc[p] = "idle" /\ pc'[p] # "idle" /\ loc'[p].kind = "timed"

\* C17: enabling the subscription feature arms exactly one recurring poll
\* timer per plugin load; after the dispose event the timer is cancelled and
\* no further timed polling cycle ever starts, across any number of load and
\* dispose cycles.
C17_OneTimerPerLoad ==
    /\ [](plugin.timers = IF plugin.loaded /\ config.enableSubscription THEN 1 ELSE 0)
    /\ [][\A p \in Tasks : TimedCycleStarts(p) => plugin.loaded]_vars

\* the second instance has been disposed of while a timed cycle it started is
\* still in progress
C17_Witness ==
    /\ plugin.loads = 2
    /\ ~plugin.loaded
    /\ plugin.timers = 0
    /\ \E p \in Tasks : loc[p].kind = "timed" /\ pc[p] = "c_send"

\* the tasks whose _request is waiting for a token exchange to answer
Exchanging == {p \in Tasks : req[p].st \in {"refresh0", "refresh1"}}

\* C18: the access token is mutated only inside the token refresh call, and
\* refresh calls are serialized: at no time are two token exchanges in flight
\* at once, even when several requests are suspended at I/O concurrently.
C18_RefreshSerialized ==
    /\ [](Cardinality(Exchanging) <= 1)
    /\ [][accessToken' # accessToken
            => \E p \in Exchanging : req'[p].st \notin {"refresh0", "refresh1"}]_vars

\* the tasks that are inside a polling cycle
InCycle == {p \in Tasks : IsCycle(p) /\ pc[p] \notin {"idle", "off"}}

\* task p has read the record of the author it is at and has not yet ended
\* that author's iteration
Handling(p, a) ==
    /\ p \in InCycle
    /\ loc[p].idx \in 1..Len(Subscriptions)
    /\ Sub(p).uid = a
    /\ obs[p].read
    /\ pc[p] # "c_next"

\* C19: polling cycles execute sequentially: a timed tick or manual trigger
\* never runs while another polling cycle is still in progress, so for any
\* author the read of the last-seen record, the push and the write of one
\* cycle are never interleaved with those steps of another cycle.
C19_CyclesSequential ==
    /\ Cardinality(InCycle) <= 1
    /\ \A a \in Authors : Cardinality({p \in Tasks : Handling(p, a)}) <= 1

\* C20: within a single artwork request, the number of image downloads in
\* flight at any moment never exceeds the configured download concurrency
\* limit (downloadConcurrency).
C20_DownloadsBounded ==
    \A p \in Tasks : InFlight(p) <= config.downloadConcurrency

\* bufs holds exactly the members of the set of indexes S, in rising order
InIndexOrder(bufs, S) ==
    /\ Len(bufs) = Cardinality(S)
    /\ \A i \in 1..Len(bufs) : bufs[i] \in S
    /\ \A i, j \in 1..Len(bufs) : i < j => bufs[i] < bufs[j]

\* C21: for every completion order of the concurrent image downloads, the
\* image buffers used for output are exactly the successfully downloaded
\* images in original image-index order: a failed download is filtered out
\* without aborting the request and without reordering the rest.
C21_BuffersInIndexOrder ==
    \A p \in Tasks :
        Downloaded(p)
        => /\ loc[p].downloaded \subseteq 1..loc[p].n
           /\ InIndexOrder(loc[p].imageBuffers, loc[p].downloaded)
           /\ loc[p].downloaded = {}
              => loc[p].content = Fail(IsSubscription(p), "dlfail")
           /\ loc[p].downloaded # {}
              => \/ /\ loc[p].content.kind \in {"pdf", "figure", "list"}
                    /\ loc[p].content.imgs = loc[p].imageBuffers
                 \/ /\ PdfCase(p)
                    /\ loc[p].content = Fail(IsSubscription(p), "error")

C21_Witness ==
    \E p \in Tasks :
        /\ Downloaded(p)
        /\ loc[p].n = 2
        /\ loc[p].downloaded = {2}
        /\ loc[p].content.kind = "list"
        /\ loc[p].content.imgs = <<2>>

\* C22: every temporary artifact a PDF render creates (the per-page image
\* directory and the PDF file) is removed on every exit path of the render:
\* the directory is gone when createPdfFile has returned or thrown, and a PDF
\* file that is on disk has its removal under way, so that nothing is left
\* for a later request or cycle.
C22_TempFilesRemoved ==
    \A p \in Tasks :
        /\ ~files.dir[p]
        /\ files.pdf[p] = "ondisk" => files.timer[p]

\* task p holds a PDF payload that it has still to send, or is sending
Sending(p) ==
    /\ pc[p] \in {"h_ret", "c_send"}
    /\ loc[p].content.pdf

\* C23: in PDF file mode the PDF on disk that the payload refers to is never
\* deleted before the delivery sink has finished every send that refers to
\* it (for a subscription push: before the send to the last channel is over).
C23_FileOutlivesSends ==
    \A p \in Tasks :
        (config.pdfSendMode = "file" /\ Sending(p))
        => files.pdf[p] = "ondisk"

\* task p is in a cycle that did not find the push bot online
OfflineCycle(p) == IsCycle(p) /\ ~loc[p].bot

\* C24: a polling cycle (timed or manual) that starts while the configured
\* push bot is absent or offline makes no gallery API call, no delivery call
\* and no persistence write; every author's last-seen record is unchanged,
\* so that the next cycle with the bot online compares the latest artwork
\* with the same record and still finds it new.
C24_OfflineCycleDoesNothing ==
    /\ [](\A p \in Tasks :
            OfflineCycle(p)
            => /\ pc[p] = "c_offline"
               /\ req[p] = ReqIdle
               /\ obs[p] = ObsIdle
               /\ loc[p].idx = 0
               /\ loc[p].updatesFound = 0)
    /\ [][(\E p \in Tasks : OfflineCycle(p) \/ OfflineCycle(p)')
          => (db' = db /\ accessToken' = accessToken)]_vars

C24_Witness ==
    \E p \in Tasks :
        /\ OfflineCycle(p)
        /\ loc[p].kind = "timed"
        /\ pc[p] = "c_offline"
        /\ db[1] # Null
        /\ db[2] = Null

=============================================================================
